---- MODULE Spec2Model ----
(***************************************************************************)
(* Model of borg's chunker module (src/borg/chunker.pyx): the buzhash      *)
(* rolling hash, the content-defined Chunker, ChunkerFixed, sparsemap and  *)
(* ChunkerFailing, each translated from its code.                          *)
(***************************************************************************)
EXTENDS Integers, Sequences, FiniteSets, TLC

VARIABLES
    fd,        \* the byte source: content, hole layout, seek position, seek behaviour
    chunker,   \* the Chunker object (cdef class Chunker) and the position inside process()
    fixed,     \* the ChunkerFixed object and its chunkify generator
    smap,      \* a sparsemap generator
    failing,   \* the ChunkerFailing object and its chunkify generator
    emitted,   \* the chunks the consumer has pulled so far, in order
    ret,       \* how the consumer's last call ended
    hasher     \* a caller of the exported buzhash and buzhash_update

vars == <<fd, chunker, fixed, smap, failing, emitted, ret, hasher>>

(***************************************************************************)
(* Bounds of the model.                                                    *)
(***************************************************************************)
\* longest input stream of the content-defined chunker
MaxLen == 10
\* longest file given to ChunkerFixed, sparsemap and ChunkerFailing
MaxFileLen == 5

\* byte values the sources hold (0 is needed for the all-zero classification)
Alphabet == {0, 1}

Min(a, b) == IF a < b THEN a ELSE b

\* None of Python
None == "None"

(***************************************************************************)
(* uint32_t.  A 32-bit value is the set of its set bit positions (0 is the *)
(* least significant bit); TLC's integers do not hold 2^32 - 1.            *)
(***************************************************************************)
Bits16(w) == {i \in 0..15 : (w \div (2 ^ i)) % 2 = 1}

\* the uint32_t with high half hi and low half lo
U32(hi, lo) == Bits16(lo) \cup {i + 16 : i \in Bits16(hi)}

\* n & 0xffffffff for a Python int n (two's complement for n < 0)
MaskU32(n) ==
    LET bits(m) == {i \in 0..30 : (m \div (2 ^ i)) % 2 = 1}
    IN IF n >= 0 THEN bits(n) ELSE (0..31) \ bits(-n - 1)

XOR(a, b) == (a \ b) \cup (b \ a)
AND(a, b) == a \cap b
OR(a, b) == a \cup b
\* v << s and v >> s on uint32_t, 0 <= s <= 31
SHL(v, s) == {i + s : i \in v} \cap (0..31)
SHR(v, s) == {i - s : i \in v} \cap (0..31)

\* x & 0x1f for an unsigned x
Low5(x) == x % 32

\* a shift that drops the bits it moves out instead of bringing them back in
BARREL_SHIFT_no_wrap(v, shift) == SHL(v, shift)

\* #define BARREL_SHIFT(v, shift) (((v) << (shift)) | ((v) >> (((32 - (shift)) & 0x1f))))
BARREL_SHIFT(v, shift) == OR(SHL(v, shift), SHR(v, Low5(32 - shift)))

\* table_base[256], each entry as <<high 16 bits, low 16 bits>>
table_base_words == <<
    <<59384, 12780>>, <<62466, 25701>>, <<44981, 3246>>, <<27989, 15482>>,
    <<54841, 61411>>, <<6567, 47253>>, <<39610, 23329>>, <<21527, 54996>>,
    <<13821, 11140>>, <<53750, 41305>>, <<16270, 12863>>, <<46105, 21788>>,
    <<62532, 52927>>, <<8668, 15232>>, <<56973, 7734>>, <<33955, 9270>>,
    <<48819, 23197>>, <<41839, 9386>>, <<42214, 390>>, <<39121, 36862>>,
    <<16132, 12190>>, <<56098, 35789>>, <<2404, 29879>>, <<23584, 49911>>,
    <<63982, 51314>>, <<59490, 21109>>, <<47571, 36736>>, <<54414, 46870>>,
    <<8873, 20660>>, <<15546, 44714>>, <<50044, 56787>>, <<36842, 28522>>,
    <<7509, 54566>>, <<32726, 54195>>, <<55968, 29422>>, <<17221, 44096>>,
    <<41079, 50754>>, <<36651, 54363>>, <<10320, 37136>>, <<21845, 30227>>,
    <<65473, 29457>>, <<55649, 65519>>, <<58674, 49799>>, <<43705, 22839>>,
    <<18131, 33637>>, <<45157, 50947>>, <<62169, 7439>>, <<37581, 19376>>,
    <<16391, 50962>>, <<62293, 2525>>, <<20571, 12137>>, <<21886, 44417>>,
    <<12559, 17763>>, <<48604, 23528>>, <<38752, 62348>>, <<28702, 517>>,
    <<21, 29252>>, <<5265, 10278>>, <<56396, 41771>>, <<26545, 38622>>,
    <<23986, 37608>>, <<35867, 16491>>, <<499, 16501>>, <<64037, 8439>>,
    <<29628, 14251>>, <<7704, 48176>>, <<65068, 27827>>, <<8389, 8912>>,
    <<22073, 58331>>, <<37931, 55861>>, <<35226, 63953>>, <<52948, 16437>>,
    <<39116, 603>>, <<9567, 22385>>, <<28926, 64036>>, <<59688, 64077>>,
    <<11267, 1029>>, <<47410, 21904>>, <<8395, 25533>>, <<41318, 12381>>,
    <<32997, 11274>>, <<43258, 65071>>, <<6865, 16253>>, <<53167, 13957>>,
    <<27779, 41369>>, <<32038, 29066>>, <<56925, 64729>>, <<31183, 29525>>,
    <<35193, 55291>>, <<60408, 50526>>, <<60388, 2276>>, <<52522, 65466>>,
    <<58499, 48750>>, <<57913, 55006>>, <<24001, 59872>>, <<1139, 37663>>,
    <<34075, 2428>>, <<44125, 45641>>, <<2496, 63986>>, <<55506, 61748>>,
    <<59123, 36417>>, <<45511, 7153>>, <<21174, 58587>>, <<1826, 17444>>,
    <<27895, 16005>>, <<20261, 55452>>, <<30762, 32116>>, <<4262, 36301>>,
    <<14982, 33161>>, <<54640, 53980>>, <<26979, 1861>>, <<38210, 60806>>,
    <<13084, 54962>>, <<43083, 23336>>, <<1927, 40093>>, <<14391, 12132>>,
    <<29061, 56081>>, <<9658, 31875>>, <<262, 5411>>, <<59001, 12191>>,
    <<58847, 2001>>, <<17185, 46207>>, <<32036, 27096>>, <<6714, 20368>>,
    <<18622, 10659>>, <<26256, 29103>>, <<36552, 56625>>, <<2064, 49087>>,
    <<33082, 1716>>, <<26707, 33605>>, <<25990, 24028>>, <<17319, 7054>>,
    <<30817, 39510>>, <<23092, 17693>>, <<23514, 41965>>, <<29165, 51177>>,
    <<6060, 39456>>, <<30929, 3066>>, <<27678, 32565>>, <<54552, 14809>>,
    <<9228, 48209>>, <<13137, 15553>>, <<53940, 63381>>, <<52394, 33158>>,
    <<2987, 59010>>, <<41788, 61796>>, <<6342, 17386>>, <<49610, 4191>>,
    <<39257, 5242>>, <<27965, 38110>>, <<2917, 20414>>, <<60816, 11424>>,
    <<32131, 23733>>, <<39354, 5385>>, <<25669, 51490>>, <<18782, 30402>>,
    <<61553, 38076>>, <<41315, 7550>>, <<26480, 30373>>, <<35327, 65077>>,
    <<6729, 48371>>, <<36460, 38026>>, <<324, 51479>>, <<36243, 44705>>,
    <<5880, 32223>>, <<51442, 23881>>, <<8113, 4759>>, <<10215, 20685>>,
    <<12098, 11681>>, <<57064, 39543>>, <<5428, 50755>>, <<17787, 31627>>,
    <<44823, 12154>>, <<27547, 2518>>, <<13143, 16255>>, <<61774, 5572>>,
    <<21092, 26581>>, <<44872, 33345>>, <<34755, 60941>>, <<13246, 18700>>,
    <<38314, 28242>>, <<17388, 9262>>, <<55165, 59803>>, <<53272, 13135>>,
    <<23416, 54279>>, <<18830, 46699>>, <<45351, 40872>>, <<45963, 3750>>,
    <<36977, 33654>>, <<58149, 57058>>, <<36399, 11450>>, <<51877, 48620>>,
    <<40293, 11350>>, <<44392, 62923>>, <<42869, 37295>>, <<35043, 32488>>,
    <<63738, 41505>>, <<64699, 48711>>, <<20288, 30598>>, <<44857, 14473>>,
    <<62532, 41433>>, <<5550, 6703>>, <<16554, 28823>>, <<28564, 34476>>,
    <<10706, 12963>>, <<58486, 2537>>, <<59574, 12799>>, <<47749, 26100>>,
    <<4392, 34633>>, <<18121, 43064>>, <<60187, 31960>>, <<62742, 48049>>,
    <<64372, 64928>>, <<265, 38630>>, <<19609, 18003>>, <<7560, 38162>>,
    <<21468, 55715>>, <<56583, 18071>>, <<7800, 57724>>, <<25468, 39103>>,
    <<37643, 45593>>, <<53119, 30128>>, <<52115, 22011>>, <<40546, 12297>>,
    <<58470, 55340>>, <<10489, 26835>>, <<65203, 34265>>, <<9102, 620>>,
    <<47341, 1376>>, <<3178, 634>>, <<15727, 60491>>, <<47947, 11970>>,
    <<59157, 796>>, <<60909, 285>>, <<52676, 54201>>, <<50262, 64662>>,
    <<56590, 59936>>, <<46047, 36553>>, <<4661, 6547>>, <<55755, 45084>>,
    <<24625, 18338>>, <<53047, 53629>>, <<63484, 55772>>, <<55381, 28579>>,
    <<4172, 33073>>, <<4885, 10100>>, <<46193, 22545>>, <<27250, 49865>>,
    <<50606, 14267>>, <<42860, 57642>>, <<33104, 55539>>, <<11970, 37400>>,
    <<41823, 2436>>, <<18624, 25726>>, <<2911, 63884>>, <<29065, 16251>>
>>

table_base == [i \in 0..255 |-> U32(table_base_words[i + 1][1], table_base_words[i + 1][2])]

\* buzhash_init_table: table[i] = table_base[i] ^ seed
buzhash_init_table(seed) == [i \in 0..255 |-> XOR(table_base[i], seed)]

\* data[k] of a C buffer held as a sequence
At(data, k) == data[k + 1]

\* the loop of _buzhash: for i in range(len - 1, 0, -1)
RECURSIVE buzhash_loop(_, _, _, _, _)
buzhash_loop(data, off, i, h, sum) ==
    IF i <= 0 THEN XOR(sum, h[At(data, off)])
    ELSE buzhash_loop(data, off + 1, i - 1, h,
                      XOR(sum, BARREL_SHIFT(h[At(data, off)], Low5(i))))

\* _buzhash(data + off, len, h)
_buzhash(data, off, len, h) == buzhash_loop(data, off, len - 1, h, {})

\* _buzhash_update(sum, remove, add, len, h)
_buzhash_update(sum, remove, add, len, h) ==
    LET lenmod == Low5(len)
    IN XOR(XOR(BARREL_SHIFT(sum, 1), BARREL_SHIFT(h[remove], lenmod)), h[add])

\* the exported buzhash(data, seed) and buzhash_update(sum, remove, add, len, seed)
buzhash(data, seed) == _buzhash(data, 0, Len(data), buzhash_init_table(MaskU32(seed)))
buzhash_update(sum, remove, add, len, seed) ==
    _buzhash_update(sum, remove, add, len, buzhash_init_table(MaskU32(seed)))

(***************************************************************************)
(* The byte source (fd / fh): a file with content, a hole layout, a seek   *)
(* position and a seek behaviour.                                          *)
(*   seekable   - FALSE: every seek raises OSError (a pipe)                *)
(*   hole_seeks - number of SEEK_HOLE / SEEK_DATA calls that succeed       *)
(*                before one raises an OSError other than ENXIO            *)
(*                (-1: they never fail)                                    *)
(*   short      - whether a read has returned fewer bytes than asked for   *)
(*                while more were left (history of the source)             *)
(*   failed     - whether a read has raised an error (history of the       *)
(*                source)                                                  *)
(***************************************************************************)
File(content, hole, seekable, hole_seeks) ==
    [content |-> content, hole |-> hole, pos |-> 0,
     seekable |-> seekable, hole_seeks |-> hole_seeks, short |-> FALSE,
     failed |-> FALSE]

\* a plain stream: no holes, seeking works
Stream(content) == File(content, [i \in 1..Len(content) |-> FALSE], TRUE, -1)

FileLen(f) == Len(f.content)

\* the byte counts a read(n) may return: at least 1 byte while data is left,
\* 0 only at end of file
ReadSizes(f, n) ==
    IF n <= 0 \/ f.pos >= FileLen(f) THEN {0} ELSE 1..Min(n, FileLen(f) - f.pos)

\* the bytes a read returning k bytes delivers
ReadBytes(f, k) == SubSeq(f.content, f.pos + 1, f.pos + k)

\* the source after a read(n) that returned k bytes
AfterRead(f, n, k) ==
    [f EXCEPT !.pos = @ + k,
              !.short = @ \/ (k < n /\ f.pos + k < FileLen(f))]

SeqsOver(S, n) == UNION {[1..m -> S] : m \in 0..n}

(***************************************************************************)
(* Chunk namedtuple and the all-zero classification                        *)
(***************************************************************************)
CH_DATA == "CH_DATA"
CH_ALLOC == "CH_ALLOC"
CH_HOLE == "CH_HOLE"

\* length of the zeros buffer of borg.constants
ZerosLen == 8

zeros == [i \in 1..ZerosLen |-> 0]

\* bytes.startswith
startswith(b, prefix) ==
    /\ Len(prefix) <= Len(b)
    /\ \A i \in 1..Len(prefix) : b[i] = prefix[i]

\* Chunk(data, **meta)
Chunk(data, size, allocation) ==
    [meta |-> [size |-> size, allocation |-> allocation], data |-> data]

\* data = None of a chunk: a value that no bytes object equals (bytes are
\* sequences over 0..255)
NoneBytes == <<-1>>

\* a classification that looks at the first byte only
classify_first_byte(data) ==
    IF data # <<>> /\ data[1] = 0
    THEN [data |-> NoneBytes, allocation |-> CH_ALLOC]
    ELSE [data |-> data, allocation |-> CH_DATA]

\* the classification of __next__ and of ChunkerFixed.chunkify
classify(data) ==
    IF startswith(zeros, data)
    THEN [data |-> NoneBytes, allocation |-> CH_ALLOC]
    ELSE [data |-> data, allocation |-> CH_DATA]

\* an object that does not exist in the run
NoObject == [pc |-> "none"]

(***************************************************************************)
(* Content-defined Chunker                                                 *)
(***************************************************************************)
\* constructor arguments (seed, chunk_min_exp, chunk_max_exp, hash_mask_bits,
\* hash_window_size) the model runs
ChunkerParams ==
    { [seed |-> 0, chunk_min_exp |-> 1, chunk_max_exp |-> 3,
       hash_mask_bits |-> 1, hash_window_size |-> 2],
      [seed |-> 1, chunk_min_exp |-> 1, chunk_max_exp |-> 2,
       hash_mask_bits |-> 2, hash_window_size |-> 1],
      [seed |-> -1, chunk_min_exp |-> 1, chunk_max_exp |-> 3,
       hash_mask_bits |-> 2, hash_window_size |-> 3] }

\* the asserts of __cinit__
ChunkerParamsOk(p) ==
    /\ 2 ^ p.chunk_max_exp <= Len(zeros)
    /\ p.hash_window_size + 2 ^ p.chunk_min_exp + 1 <= 2 ^ p.chunk_max_exp

\* content of malloc'ed memory that was never written: no byte value, so
\* that a chunk or a hash that takes it in is no chunk or hash of the stream
Junk == -1

\* Chunker.__cinit__
Chunker_cinit(p) ==
    LET min_size == 2 ^ p.chunk_min_exp
        max_size == 2 ^ p.chunk_max_exp
    IN [params |-> p,
        window_size |-> p.hash_window_size,
        chunk_mask |-> MaskU32(2 ^ p.hash_mask_bits - 1),
        min_size |-> min_size,
        seed |-> MaskU32(p.seed),
        buf_size |-> max_size,
        data |-> [i \in 1..max_size |-> Junk],
        done |-> 0, eof |-> 0, remaining |-> 0, position |-> 0, last |-> 0,
        bytes_read |-> 0, bytes_yielded |-> 0,
        sum |-> {}, in_bounds |-> TRUE, earlier |-> "none", pc |-> "new"]

\* chunkify that leaves eof as the run before left it
chunkify_keeps_eof(c) ==
    [c EXCEPT !.done = 0, !.remaining = 0, !.bytes_read = 0, !.bytes_yielded = 0,
              !.position = 0, !.last = 0, !.sum = {}, !.pc = "idle"]

\* Chunker.chunkify
chunkify(c) ==
    [c EXCEPT !.done = 0, !.remaining = 0, !.bytes_read = 0, !.bytes_yielded = 0,
              !.position = 0, !.last = 0, !.eof = 0, !.sum = {}, !.pc = "idle"]

\* self.table
Table(c) == buzhash_init_table(c.seed)

\* the buffer indices of fill and process are in order and inside the buffer
\* (remaining is a size_t: a negative value stands for its wrap-around)
BufferOk(c) ==
    /\ 0 <= c.last
    /\ c.last <= c.position
    /\ 0 <= c.remaining
    /\ c.position + c.remaining <= c.buf_size

\* c after a step of fill or process; in_bounds records, for the observer,
\* that BufferOk held after every step so far
observed(c) ==
    CHOOSE r \in {[v EXCEPT !.in_bounds = @ /\ BufferOk(v)] : v \in {c}} : TRUE

\* c after process read data[lo .. hi] while c was the state; in_bounds
\* records that every byte read so far was a buffered one
observed_read(c, lo, hi, after) ==
    [after EXCEPT !.in_bounds =
        @ /\ (hi < lo \/ (c.last <= lo /\ hi < c.position + c.remaining))]

\* fill that moves the data but leaves last where it was
fill_compact_keep_last(c) ==
    LET len == c.position + c.remaining - c.last
    IN [c EXCEPT !.data = [i \in 1..c.buf_size |->
                              IF i <= len THEN c.data[i + c.last] ELSE c.data[i]],
                 !.position = c.position - c.last]

\* fill without the memmove: only the indices are adjusted
fill_compact_no_memmove(c) ==
    [c EXCEPT !.position = c.position - c.last, !.last = 0]

\* fill: move the remaining data to the beginning of the buffer
fill_compact(c) ==
    LET len == c.position + c.remaining - c.last
    IN [c EXCEPT !.data = [i \in 1..c.buf_size |->
                              IF i <= len THEN c.data[i + c.last] ELSE c.data[i]],
                 !.position = c.position - c.last,
                 !.last = 0]

\* fill: n = self.buf_size - self.position - self.remaining
fill_want(c) == c.buf_size - c.position - c.remaining

\* fill taking a read shorter than asked for as the end of the file
fill_store_short_eof(c, bytes) ==
    LET n == Len(bytes)
        at == c.position + c.remaining
    IN IF n > 0
       THEN [c EXCEPT !.data = [i \in 1..c.buf_size |->
                                   IF i > at /\ i <= at + n THEN bytes[i - at] ELSE c.data[i]],
                      !.remaining = c.remaining + n,
                      !.bytes_read = c.bytes_read + n,
                      !.eof = IF n < fill_want(c) THEN 1 ELSE 0]
       ELSE [c EXCEPT !.eof = 1]

\* fill that does not set eof when the read returns no bytes
fill_store_no_eof(c, bytes) ==
    LET n == Len(bytes)
        at == c.position + c.remaining
    IN [c EXCEPT !.data = [i \in 1..c.buf_size |->
                              IF i > at /\ i <= at + n THEN bytes[i - at] ELSE c.data[i]],
                 !.remaining = c.remaining + n,
                 !.bytes_read = c.bytes_read + n]

\* fill: what the read returned is stored behind the buffered bytes
fill_store(c, bytes) ==
    LET n == Len(bytes)
        at == c.position + c.remaining
    IN IF n > 0
       THEN [c EXCEPT !.data = [i \in 1..c.buf_size |->
                                   IF i > at /\ i <= at + n THEN bytes[i - at] ELSE c.data[i]],
                      !.remaining = c.remaining + n,
                      !.bytes_read = c.bytes_read + n]
       ELSE [c EXCEPT !.eof = 1]

\* __next__: the view process() returned becomes a Chunk
next_return(w, view) ==
    LET got == Len(view)
        cl == classify(view)
    IN [w EXCEPT !.out = Append(w.out, Chunk(cl.data, got, cl.allocation)),
                 !.ret = "chunk",
                 !.ck = [w.ck EXCEPT !.pc = "idle", !.sum = {}]]

\* __next__: process() raised
next_raise(w, what) ==
    [w EXCEPT !.ret = what, !.ck = [w.ck EXCEPT !.pc = "idle", !.sum = {}]]

\* process: if self.done
process_done(w) ==
    IF w.ck.bytes_read = w.ck.bytes_yielded
    THEN next_raise(w, "StopIteration")
    ELSE next_raise(w, "chunkifier byte count mismatch")

\* process: if self.eof
process_eof(w) ==
    LET c == [w.ck EXCEPT !.done = 1]
    IN IF c.remaining # 0
       THEN next_return([w EXCEPT !.ck = [c EXCEPT !.bytes_yielded = @ + c.remaining]],
                        SubSeq(c.data, c.position + 1, c.position + c.remaining))
       ELSE process_done([w EXCEPT !.ck = c])

\* process skipping one byte less than min_size
process_skip_off_by_one(c) ==
    LET position == c.position + c.min_size - 1
    IN [c EXCEPT !.position = position,
                 !.remaining = c.remaining - (c.min_size - 1),
                 !.sum = _buzhash(c.data, position, c.window_size, Table(c)),
                 !.pc = "slide"]

\* process hashing the window at the start of the chunk, not at the first
\* place a cut may be
process_skip_hash_at_start(c) ==
    LET position == c.position + c.min_size
    IN [c EXCEPT !.position = position,
                 !.remaining = c.remaining - c.min_size,
                 !.sum = _buzhash(c.data, c.position, c.window_size, Table(c)),
                 !.pc = "slide"]

\* process: skip min_size bytes and hash the first window
process_skip(c) ==
    LET position == c.position + c.min_size
    IN [c EXCEPT !.position = position,
                 !.remaining = c.remaining - c.min_size,
                 !.sum = _buzhash(c.data, position, c.window_size, Table(c)),
                 !.pc = "slide"]

\* process: while p < stop_at and (sum & chunk_mask)
RECURSIVE slide_loop(_, _, _, _)
slide_loop(c, p, stop_at, sum) ==
    IF p < stop_at /\ AND(sum, c.chunk_mask) # {}
    THEN slide_loop(c, p + 1, stop_at,
                    _buzhash_update(sum, At(c.data, p), At(c.data, p + c.window_size),
                                    c.window_size, Table(c)))
    ELSE [p |-> p, sum |-> sum]

\* process: one round of the outer search loop, up to the fill
process_slide(c) ==
    LET r == slide_loop(c, c.position, c.position + c.remaining - c.window_size, c.sum)
        did_bytes == r.p - c.position
    IN [c EXCEPT !.sum = r.sum,
                 !.position = c.position + did_bytes,
                 !.remaining = c.remaining - did_bytes]

\* process that leaves the absorbed tail out of bytes_yielded
process_emit_tail_uncounted(w) ==
    LET c == w.ck
        absorb == c.remaining <= c.window_size
        position == IF absorb THEN c.position + c.remaining ELSE c.position
        old_last == c.last
        n == position - old_last
    IN next_return([w EXCEPT !.ck = [c EXCEPT !.position = position,
                                              !.remaining = IF absorb THEN 0 ELSE @,
                                              !.last = position,
                                              !.bytes_yielded = @ + (c.position - old_last)]],
                   SubSeq(c.data, old_last + 1, old_last + n))

\* process that cuts at position whatever is left behind it
process_emit_no_absorb(w) ==
    LET c == w.ck
        old_last == c.last
        n == c.position - old_last
    IN next_return([w EXCEPT !.ck = [c EXCEPT !.last = c.position,
                                              !.bytes_yielded = @ + n]],
                   SubSeq(c.data, old_last + 1, old_last + n))

\* process that absorbs a tail shorter than the window only
process_emit_absorb_below_window(w) ==
    LET c == w.ck
        absorb == c.remaining < c.window_size
        position == IF absorb THEN c.position + c.remaining ELSE c.position
        old_last == c.last
        n == position - old_last
    IN next_return([w EXCEPT !.ck = [c EXCEPT !.position = position,
                                              !.remaining = IF absorb THEN 0 ELSE @,
                                              !.last = position,
                                              !.bytes_yielded = @ + n]],
                   SubSeq(c.data, old_last + 1, old_last + n))

\* process: the chunk is cut at position
process_emit(w) ==
    LET c == w.ck
        absorb == c.remaining <= c.window_size
        position == IF absorb THEN c.position + c.remaining ELSE c.position
        old_last == c.last
        n == position - old_last
    IN next_return([w EXCEPT !.ck = [c EXCEPT !.position = position,
                                              !.remaining = IF absorb THEN 0 ELSE @,
                                              !.last = position,
                                              !.bytes_yielded = @ + n]],
                   SubSeq(c.data, old_last + 1, old_last + n))

\* process_skip's result: _buzhash read the window_size bytes at the new position
skipped(c, s) ==
    CHOOSE r \in {observed(observed_read(v, v.position, v.position + v.window_size - 1, v))
                      : v \in {s}} : TRUE

\* process_slide's result: each of the did_bytes rounds of the inner loop read
\* p[0] and p[window_size], p going up from the old position
slid(c, s) ==
    CHOOSE r \in {IF v.position = c.position
                  THEN observed(v)
                  ELSE observed(observed_read(c, c.position,
                                              v.position - 1 + c.window_size, v))
                      : v \in {s}} : TRUE

RECURSIVE process_from(_)

\* process from the loop head named by pc ("guard": line 477, "slide": line 501)
\* up to the next read() or to the end of the call
process_at(w) ==
    LET c == w.ck
    IN IF c.pc = "guard"
       THEN IF c.remaining < c.min_size + c.window_size + 1 /\ c.eof = 0
            THEN LET f == observed(fill_compact(c))
                 IN IF fill_want(f) = 0
                    THEN \* fill returns without reading and the loop condition is unchanged
                         [w EXCEPT !.ck = [f EXCEPT !.pc = "spin"]]
                    ELSE [w EXCEPT !.ck = [f EXCEPT !.pc = "read_guard"]]
            ELSE IF c.eof # 0
                 THEN process_eof(w)
                 ELSE process_from([w EXCEPT !.ck = skipped(c, process_skip(c))])
       ELSE IF c.remaining > c.window_size /\ AND(c.sum, c.chunk_mask) # {}
            THEN LET s == slid(c, process_slide(c))
                 IN IF s.remaining <= s.window_size
                    THEN LET f == observed(fill_compact(s))
                         IN IF f.eof # 0 \/ fill_want(f) = 0
                            THEN process_from([w EXCEPT !.ck = f])
                            ELSE [w EXCEPT !.ck = [f EXCEPT !.pc = "read_slide"]]
                    ELSE process_from([w EXCEPT !.ck = s])
            ELSE process_emit(w)

\* process_at of the state w stands for, w being worked out once
process_from(w) == CHOOSE r \in {process_at(v) : v \in {w}} : TRUE

\* __next__ / process, from the call to the first read() or to the end of the call
Chunker__next__(w) ==
    IF w.ck.done # 0
    THEN process_done(w)
    ELSE process_from([w EXCEPT !.ck = [w.ck EXCEPT !.pc = "guard"]])

\* fill's read() returned k bytes: store them and go on in process
Chunker_fill_read(w, k) ==
    LET at == IF w.ck.pc = "read_guard" THEN "guard" ELSE "slide"
        c == observed(fill_store(w.ck, ReadBytes(w.fd, k)))
    IN process_from([w EXCEPT !.ck = [c EXCEPT !.pc = at], !.fd = AfterRead(w.fd, fill_want(w.ck), k)])

World == [ck |-> chunker, fd |-> fd, out |-> emitted, ret |-> ret]

InitChunker ==
    /\ \E content \in SeqsOver(Alphabet, MaxLen) : fd = Stream(content)
    /\ \E p \in {q \in ChunkerParams : ChunkerParamsOk(q)} : chunker = Chunker_cinit(p)
    /\ fixed = NoObject /\ smap = NoObject /\ failing = NoObject /\ hasher = NoObject
    /\ emitted = <<>>
    /\ ret = "none"

\* the consumer calls chunker.chunkify(fd)
Chunker_chunkify ==
    /\ chunker.pc = "new"
    /\ chunker' = chunkify(chunker)
    /\ UNCHANGED <<fd, fixed, smap, failing, emitted, ret, hasher>>

\* the consumer calls next(chunker)
Chunker_next ==
    /\ chunker.pc = "idle"
    /\ \E w \in {Chunker__next__(World)} :
          chunker' = w.ck /\ fd' = w.fd /\ emitted' = w.out /\ ret' = w.ret
    /\ UNCHANGED <<fixed, smap, failing, hasher>>

\* the read() of fill returns
Chunker_read ==
    /\ chunker.pc \in {"read_guard", "read_slide"}
    /\ \E k \in ReadSizes(fd, fill_want(chunker)) :
          \E w \in {Chunker_fill_read(World, k)} :
             chunker' = w.ck /\ fd' = w.fd /\ emitted' = w.out /\ ret' = w.ret
    /\ UNCHANGED <<fixed, smap, failing, hasher>>

NextChunker == Chunker_chunkify \/ Chunker_next \/ Chunker_read

SpecChunker == InitChunker /\ [][NextChunker]_vars

\* the read() of fill fails: fill raises OSError after its memmove, process
\* and __next__ let it through, and the fields are left as they are
Chunker_read_error ==
    /\ chunker.pc \in {"read_guard", "read_slide"}
    /\ chunker' = [chunker EXCEPT !.pc = "idle", !.sum = {}]
    /\ fd' = [fd EXCEPT !.failed = TRUE]
    /\ ret' = "OSError"
    /\ UNCHANGED <<fixed, smap, failing, emitted, hasher>>

NextChunkerErr == NextChunker \/ Chunker_read_error

\* the runs in which reads may fail and the consumer goes on calling next()
SpecChunkerErr == InitChunker /\ [][NextChunkerErr]_vars

\* longest stream of the runs in which a Chunker is used again
MaxReuseLen == 5

InitChunkerReuse ==
    /\ InitChunker
    /\ FileLen(fd) <= MaxReuseLen

\* how the consumer left the run it was in: it saw the end of the sequence,
\* its last next() raised a read error, or it went away in between
RunLeft ==
    IF ret = "StopIteration" THEN "finished"
    ELSE IF ret = "OSError" THEN "error"
    ELSE "abandoned"

\* the consumer calls chunker.chunkify(fd) on a Chunker that was used before,
\* with another source; earlier records, for the observer, how the run
\* before was left
Chunker_chunkify_again ==
    /\ chunker.pc = "idle"
    /\ chunker' = [chunkify(chunker) EXCEPT !.earlier = RunLeft]
    /\ \E content \in SeqsOver(Alphabet, MaxReuseLen) : fd' = Stream(content)
    /\ emitted' = <<>>
    /\ ret' = "none"
    /\ UNCHANGED <<fixed, smap, failing, hasher>>

NextChunkerReuse == NextChunkerErr \/ Chunker_chunkify_again

\* the runs in which a Chunker is given one source after another
SpecChunkerReuse == InitChunkerReuse /\ [][NextChunkerReuse]_vars

\* longest stream of the runs checked for termination
MaxLiveLen == 6

InitChunkerLive ==
    /\ InitChunker
    /\ FileLen(fd) <= MaxLiveLen

\* the consumer goes on pulling chunks and every read() returns
SpecChunkerLive == InitChunkerLive /\ [][NextChunker]_vars /\ WF_vars(NextChunker)

(***************************************************************************)
(* dseek and sparsemap                                                     *)
(***************************************************************************)
SEEK_SET == "SEEK_SET"
SEEK_CUR == "SEEK_CUR"
SEEK_END == "SEEK_END"
SEEK_DATA == "SEEK_DATA"
SEEK_HOLE == "SEEK_HOLE"

ENXIO == "ENXIO"
EINVAL == "EINVAL"
ESPIPE == "ESPIPE"
EIO == "EIO"

\* the first offset >= from whose byte is (hole = TRUE) or is not (hole = FALSE)
\* in a hole; the file length when there is none
FirstAt(f, from, hole) ==
    LET found == {i \in from..(FileLen(f) - 1) : f.hole[i + 1] = hole}
    IN IF found = {} THEN FileLen(f)
       ELSE CHOOSE i \in found : \A j \in found : i <= j

Raised(f, errno) == [ok |-> FALSE, errno |-> errno, pos |-> f.pos, f |-> f]
Sought(f, pos) == [ok |-> TRUE, errno |-> None, pos |-> pos, f |-> [f EXCEPT !.pos = pos]]

\* lseek(fd, amount, SEEK_HOLE / SEEK_DATA): ENXIO when amount is at or beyond
\* the end of the file, and for SEEK_DATA when no data follows; the end of the
\* file is a hole for SEEK_HOLE
seek_hole_data(amount, whence, f) ==
    LET g == [f EXCEPT !.hole_seeks = IF @ > 0 THEN @ - 1 ELSE @]
    IN IF f.hole_seeks = 0 THEN Raised(f, EINVAL)
       ELSE IF amount >= FileLen(f) THEN Raised(g, ENXIO)
       ELSE IF whence = SEEK_HOLE THEN Sought(g, FirstAt(f, amount, TRUE))
       ELSE IF FirstAt(f, amount, FALSE) = FileLen(f) THEN Raised(g, ENXIO)
       ELSE Sought(g, FirstAt(f, amount, FALSE))

\* dseek(amount, whence, fd, fh): the new position, or the OSError raised
dseek(amount, whence, f) ==
    IF ~f.seekable THEN Raised(f, ESPIPE)
    ELSE IF whence = SEEK_SET THEN Sought(f, amount)
    ELSE IF whence = SEEK_CUR THEN Sought(f, f.pos + amount)
    ELSE IF whence = SEEK_END THEN Sought(f, FileLen(f) + amount)
    ELSE seek_hole_data(amount, whence, f)

\* dpos_curr_end: return curr, end with c, e, b what the three seeks returned
dpos_result(c, e, b) ==
    IF ~c.ok THEN [ok |-> FALSE, f |-> c.f, curr |-> 0, end |-> 0]
    ELSE IF ~e.ok THEN [ok |-> FALSE, f |-> e.f, curr |-> 0, end |-> 0]
    ELSE [ok |-> b.ok, f |-> b.f, curr |-> c.pos, end |-> e.pos]

\* dpos_curr_end: dseek(curr, os.SEEK_SET, fd, fh)
dpos_restore(c, e) == dpos_result(c, e, dseek(c.pos, SEEK_SET, e.f))

\* dpos_curr_end: end = dseek(0, os.SEEK_END, fd, fh)
dpos_end(c) == dpos_restore(c, dseek(0, SEEK_END, c.f))

\* dpos_curr_end(fd, fh)
dpos_curr_end(f) == dpos_end(dseek(0, SEEK_CUR, f))

\* the generator object sparsemap(fd, fh) returns: no code has run yet.
\* pos0 records the seek position at that time.
sparsemap(f) ==
    [pc |-> "created", pos0 |-> f.pos, curr |-> 0, file_len |-> 0,
     start |-> 0, end |-> 0, whence |-> SEEK_HOLE]

\* what a resumed generator hands back: its state, the source, the value
\* yielded (None when it ended) and how the resumption ended
Resumed(g, f, val, how) == [g |-> g, f |-> f, val |-> val, ret |-> how]

\* sparsemap: the generator has ended as how says, unless the seek of the
\* finally clause (r) raised
sparsemap_ended(g, r, how) ==
    IF r.ok
    THEN Resumed([g EXCEPT !.pc = IF how = "StopIteration" THEN "finished"
                                  ELSE IF how = "GeneratorExit" THEN "closed"
                                  ELSE "raised"],
                 r.f, None, how)
    ELSE Resumed([g EXCEPT !.pc = "raised"], r.f, None, "OSError")

\* sparsemap without the seek of the finally clause
sparsemap_finally_no_restore(g, f, how) ==
    sparsemap_ended(g, [ok |-> TRUE, errno |-> None, pos |-> f.pos, f |-> f], how)

\* sparsemap: finally: dseek(curr, os.SEEK_SET, fd, fh); the generator ends as
\* how says unless the seek raises
sparsemap_finally(g, f, how) ==
    sparsemap_ended(g, dseek(g.curr, SEEK_SET, f), how)

\* sparsemap breaking out of the loop on every ENXIO
sparsemap_enxio_no_tail(g, f, is_data) ==
    sparsemap_finally(g, f, "StopIteration")

\* sparsemap: except OSError with errno ENXIO
sparsemap_enxio(g, f, is_data) ==
    IF ~is_data /\ g.start < g.file_len
    THEN Resumed([g EXCEPT !.pc = "yielded_last", !.end = g.file_len],
                 f, <<g.start, g.file_len - g.start, is_data>>, "yield")
    ELSE sparsemap_finally(g, f, "StopIteration")

RECURSIVE sparsemap_loop(_, _)

\* sparsemap: one round of the while True loop after its dseek returned or
\* raised r
sparsemap_sought(g, r) ==
    IF ~r.ok
    THEN IF r.errno = ENXIO
         THEN sparsemap_enxio(g, r.f, g.whence = SEEK_HOLE)
         ELSE sparsemap_finally(g, r.f, "OSError")
    ELSE IF r.pos > g.start
         THEN Resumed([g EXCEPT !.pc = "yielded", !.end = r.pos],
                      r.f, <<g.start, r.pos - g.start, g.whence = SEEK_HOLE>>, "yield")
         ELSE sparsemap_loop([g EXCEPT !.start = r.pos,
                                       !.whence = IF g.whence = SEEK_HOLE THEN SEEK_DATA
                                                  ELSE SEEK_HOLE],
                             r.f)

\* sparsemap: the while True loop, from its head to the next yield or the end
sparsemap_loop(g, f) == sparsemap_sought(g, dseek(g.start, g.whence, f))

\* sparsemap: the code before the loop, r being what dpos_curr_end returned
sparsemap_start(g, r) ==
    IF ~r.ok
    THEN Resumed([g EXCEPT !.pc = "raised"], r.f, None, "OSError")
    ELSE sparsemap_loop([g EXCEPT !.curr = r.curr, !.file_len = r.end,
                                  !.start = r.curr, !.whence = SEEK_HOLE], r.f)

\* next(generator): run sparsemap from where it stands to the next yield or its end
sparsemap_next(g, f) ==
    IF g.pc = "created"
    THEN sparsemap_start(g, dpos_curr_end(f))
    ELSE IF g.pc = "yielded"
    THEN sparsemap_loop([g EXCEPT !.start = g.end,
                                  !.whence = IF g.whence = SEEK_HOLE THEN SEEK_DATA
                                             ELSE SEEK_HOLE], f)
    ELSE IF g.pc = "yielded_last"
    THEN sparsemap_finally(g, f, "StopIteration")
    ELSE Resumed(g, f, None, "StopIteration")

\* generator.close(): GeneratorExit is raised at the yield the generator waits at
sparsemap_close(g, f) ==
    IF g.pc \in {"yielded", "yielded_last"}
    THEN sparsemap_finally(g, f, "GeneratorExit")
    ELSE IF g.pc = "created"
    THEN Resumed([g EXCEPT !.pc = "closed"], f, None, "GeneratorExit")
    ELSE Resumed(g, f, None, "GeneratorExit")

RECURSIVE sparsemap_list(_, _, _)

\* list(...): r is what next(generator) handed back
sparsemap_collect(r, acc) ==
    IF r.ret = "yield" THEN sparsemap_list(r.g, r.f, Append(acc, r.val))
    ELSE [ok |-> r.ret = "StopIteration", f |-> r.f, ranges |-> acc]

\* list(sparsemap(fd, fh)): the ranges, or the OSError
sparsemap_list(g, f, acc) == sparsemap_collect(sparsemap_next(g, f), acc)

\* the hole layouts of the files of up to n bytes
Layouts(n) == UNION {[1..m -> BOOLEAN] : m \in 0..n}

\* most SEEK_HOLE / SEEK_DATA calls that succeed before one fails
MaxHoleSeeks == 2

InitSparsemap ==
    /\ \E hole \in Layouts(MaxFileLen), seekable \in BOOLEAN, hole_seeks \in -1..MaxHoleSeeks :
       \E pos \in 0..(Len(hole) + 1) :
          LET f == [File([i \in 1..Len(hole) |-> IF hole[i] THEN 0 ELSE 1],
                         hole, seekable, hole_seeks) EXCEPT !.pos = pos]
          IN fd = f /\ smap = sparsemap(f)
    /\ chunker = NoObject /\ fixed = NoObject /\ failing = NoObject /\ hasher = NoObject
    /\ emitted = <<>>
    /\ ret = "none"

\* the consumer pulls the next range
Sparsemap_next ==
    /\ smap.pc \in {"created", "yielded", "yielded_last"}
    /\ LET r == sparsemap_next(smap, fd)
       IN /\ smap' = r.g
          /\ fd' = r.f
          /\ emitted' = IF r.ret = "yield" THEN Append(emitted, r.val) ELSE emitted
          /\ ret' = r.ret
    /\ UNCHANGED <<chunker, fixed, failing, hasher>>

\* the consumer abandons the generator
Sparsemap_close ==
    /\ smap.pc \in {"created", "yielded", "yielded_last"}
    /\ LET r == sparsemap_close(smap, fd)
       IN smap' = r.g /\ fd' = r.f /\ ret' = r.ret
    /\ UNCHANGED <<chunker, fixed, failing, emitted, hasher>>

NextSparsemap == Sparsemap_next \/ Sparsemap_close

SpecSparsemap == InitSparsemap /\ [][NextSparsemap]_vars

(***************************************************************************)
(* ChunkerFixed                                                            *)
(***************************************************************************)
\* 2 ** 62, the length of the last range of the synthesized map.  TLC's
\* integers end at 2^31 - 1; a length above every file length acts the same.
RangeInfinity == 1073741824

\* ChunkerFixed.__init__; has_seek_hole is the platform's
ChunkerFixed_init(block_size, header_size, sparse, has_seek_hole) ==
    [block_size |-> block_size,
     header_size |-> header_size,
     try_sparse |-> sparse /\ has_seek_hole,
     fmap |-> None, ri |-> 0, offset |-> 0, range_size |-> 0, is_data |-> TRUE,
     wanted |-> 0, got |-> 0,
     fellback |-> FALSE,   \* history: building the sparse map was tried and failed
     raw |-> <<>>,         \* history: what was read for each emitted chunk
     pc |-> "new"]

\* chunkify(fd, fh): the generator object; no code has run yet
fixed_chunkify(x) ==
    [x EXCEPT !.fmap = None, !.ri = 0, !.offset = 0, !.range_size = 0,
              !.is_data = TRUE, !.wanted = 0, !.got = 0, !.pc = "created"]

\* chunkify: the "fake fmap" that takes the whole file as data
fake_fmap(x) ==
    IF x.header_size > 0
    THEN << <<0, x.header_size, TRUE>>, <<x.header_size, RangeInfinity, TRUE>> >>
    ELSE << <<0, RangeInfinity, TRUE>> >>

\* chunkify: fmap = header_map + body_map, z being what dseek(0, os.SEEK_SET)
\* returned when there is a header
fixed_header_body(x, b, z) ==
    IF ~z.ok THEN [ok |-> FALSE, f |-> z.f, fmap |-> None]
    ELSE [ok |-> TRUE, f |-> z.f, fmap |-> << <<0, x.header_size, TRUE>> >> \o b.ranges]

\* chunkify: b is what list(sparsemap(fd, fh)) returned or raised
fixed_body_map(x, b) ==
    IF ~b.ok THEN [ok |-> FALSE, f |-> b.f, fmap |-> None]
    ELSE IF x.header_size > 0 THEN fixed_header_body(x, b, dseek(0, SEEK_SET, b.f))
    ELSE [ok |-> TRUE, f |-> b.f, fmap |-> b.ranges]

\* chunkify: body_map = list(sparsemap(fd, fh)), s being what the seek before
\* it returned
fixed_body(x, s) ==
    IF ~s.ok THEN [ok |-> FALSE, f |-> s.f, fmap |-> None]
    ELSE fixed_body_map(x, sparsemap_list(sparsemap(s.f), s.f, <<>>))

\* chunkify: the try block that builds header_map + body_map
fixed_sparse_fmap(x, f) ==
    fixed_body(x, IF x.header_size > 0 THEN dseek(x.header_size, SEEK_SET, f)
                  ELSE [ok |-> TRUE, errno |-> None, pos |-> f.pos, f |-> f])

\* chunkify: the map once the try block has ended as s says
fixed_fmap_built(w, s) ==
    IF s.ok
    THEN [w EXCEPT !.fx = [w.fx EXCEPT !.fmap = s.fmap, !.offset = 0, !.ri = 0],
                   !.fd = s.f]
    ELSE [w EXCEPT !.fx = [w.fx EXCEPT !.fmap = fake_fmap(w.fx), !.offset = 0, !.ri = 0,
                                       !.fellback = TRUE],
                   !.fd = s.f]

\* chunkify: if fmap is None ... offset = 0
fixed_build_fmap(w) ==
    IF w.fx.try_sparse
    THEN fixed_fmap_built(w, fixed_sparse_fmap(w.fx, w.fd))
    ELSE [w EXCEPT !.fx = [w.fx EXCEPT !.fmap = fake_fmap(w.fx), !.offset = 0, !.ri = 0]]

\* chunkify: a falling or explicit return ends the generator
fixed_return(w) ==
    [w EXCEPT !.fx = [w.fx EXCEPT !.pc = "finished"], !.ret = "StopIteration"]

\* chunkify: an OSError leaves the generator
fixed_raise(w, f) ==
    [w EXCEPT !.fx = [w.fx EXCEPT !.pc = "raised"], !.fd = f, !.ret = "OSError"]

\* chunkify yielding a chunk whatever got is
fixed_yield_always(w, got, data, allocation, raw) ==
    [w EXCEPT !.fx = [w.fx EXCEPT !.offset = w.fx.offset + got,
                                  !.range_size = w.fx.range_size - got,
                                  !.got = got,
                                  !.raw = Append(w.fx.raw, raw),
                                  !.pc = "yielded"],
              !.out = Append(w.out, Chunk(data, got, allocation)),
              !.ret = "chunk"]

\* chunkify: if got > 0: ... yield Chunk(data, size=got, allocation=allocation);
\* with got = 0 the next statement, if got < wanted: return, ends the generator
fixed_yield(w, got, data, allocation, raw) ==
    LET x == w.fx
    IN IF got > 0
       THEN [w EXCEPT !.fx = [x EXCEPT !.offset = x.offset + got,
                                       !.range_size = x.range_size - got,
                                       !.got = got,
                                       !.raw = Append(x.raw, raw),
                                       !.pc = "yielded"],
                      !.out = Append(w.out, Chunk(data, got, allocation)),
                      !.ret = "chunk"]
       ELSE IF got < x.wanted
            THEN fixed_return(w)
            ELSE [w EXCEPT !.fx = [x EXCEPT !.got = got, !.pc = "while"]]

\* chunkify: a block of a hole range, s being what dseek(wanted, os.SEEK_CUR)
\* returned
fixed_hole_sought(w, s, allocation) ==
    IF ~s.ok THEN fixed_raise(w, s.f)
    ELSE fixed_yield([w EXCEPT !.fd = s.f], s.pos - w.fx.offset, NoneBytes, allocation, NoneBytes)

\* chunkify emitting the block of a hole range as an all-zero data block
fixed_hole_as_alloc(w) ==
    fixed_hole_sought(w, dseek(w.fx.wanted, SEEK_CUR, w.fd), CH_ALLOC)

\* chunkify: a block of a hole range: seek over it
fixed_hole(w) ==
    fixed_hole_sought(w, dseek(w.fx.wanted, SEEK_CUR, w.fd), CH_HOLE)

RECURSIVE fixed_ranges(_)

\* chunkify: after a block that yielded nothing the while loop goes on
fixed_continue(w) == IF w.fx.pc = "while" THEN fixed_ranges(w) ELSE w

\* chunkify: the head of the for loop: the next range r of the map, s being
\* what the seek to its start returned when it does not start at offset
fixed_range(w, r, s) ==
    IF ~s.ok THEN fixed_raise(w, s.f)
    ELSE fixed_ranges([w EXCEPT !.fx = [w.fx EXCEPT !.ri = w.fx.ri + 1,
                                                   !.range_size = r[2],
                                                   !.is_data = r[3],
                                                   !.offset = r[1],
                                                   !.pc = "while"],
                                !.fd = s.f])

\* chunkify: the loops over the ranges ("for") and over the blocks of a range
\* ("while"), up to the next read, yield or end
fixed_ranges(w) ==
    IF w.fx.pc = "for"
    THEN IF w.fx.ri >= Len(w.fx.fmap)
         THEN fixed_return(w)
         ELSE fixed_range(w, w.fx.fmap[w.fx.ri + 1],
                          IF w.fx.fmap[w.fx.ri + 1][1] # w.fx.offset
                          THEN dseek(w.fx.fmap[w.fx.ri + 1][1], SEEK_SET, w.fd)
                          ELSE [ok |-> TRUE, errno |-> None, pos |-> w.fd.pos, f |-> w.fd])
    ELSE IF w.fx.range_size = 0
         THEN fixed_ranges([w EXCEPT !.fx = [w.fx EXCEPT !.pc = "for"]])
         ELSE IF w.fx.is_data
              THEN [w EXCEPT !.fx = [w.fx EXCEPT
                                        !.wanted = Min(w.fx.range_size, w.fx.block_size),
                                        !.pc = "in_read"]]
              ELSE fixed_continue(fixed_hole(
                       [w EXCEPT !.fx = [w.fx EXCEPT
                                            !.wanted = Min(w.fx.range_size, w.fx.block_size)]]))

\* next(generator): from the start or from the last yield to the next read,
\* yield or end
fixed_resume(w) ==
    IF w.fx.pc = "created"
    THEN fixed_ranges([fixed_build_fmap(w) EXCEPT !.fx.pc = "for"])
    ELSE IF w.fx.pc = "yielded"
    THEN IF w.fx.got < w.fx.wanted
         THEN fixed_return(w)
         ELSE fixed_ranges([w EXCEPT !.fx.pc = "while"])
    ELSE [w EXCEPT !.ret = "StopIteration"]

\* chunkify: what was read is classified as cl says
fixed_got_data(w, k, data, cl) ==
    fixed_continue(fixed_yield([w EXCEPT !.fd = AfterRead(w.fd, w.fx.wanted, k)],
                               k, cl.data, cl.allocation, data))

\* chunkify: dread returned k bytes: classify them, yield or return
fixed_read(w, k) == fixed_got_data(w, k, ReadBytes(w.fd, k), classify(ReadBytes(w.fd, k)))

FixedWorld == [fx |-> fixed, fd |-> fd, out |-> emitted, ret |-> ret]

\* longest file given to ChunkerFixed
MaxFixedLen == 4
\* largest block_size and header_size
MaxBlockSize == 2
MaxHeaderSize == 2

\* the files of up to n bytes: each byte in a hole (read as 0) or data
Files(n) ==
    {f \in [content : SeqsOver(Alphabet, n), hole : Layouts(n)] :
        /\ Len(f.content) = Len(f.hole)
        /\ \A i \in 1..Len(f.hole) : f.hole[i] => f.content[i] = 0}

\* ways the source and the platform seek: <<has_seek_hole, seekable, hole_seeks>>
SeekBehaviours ==
    {<<FALSE, TRUE, -1>>, <<TRUE, FALSE, -1>>} \cup {<<TRUE, TRUE, n>> : n \in -1..MaxHoleSeeks}

InitFixed ==
    /\ \E file \in Files(MaxFixedLen), block_size \in 1..MaxBlockSize,
          header_size \in 0..MaxHeaderSize, sparse \in BOOLEAN, sb \in SeekBehaviours :
          /\ block_size <= Len(zeros)
          /\ sparse \/ sb = <<TRUE, TRUE, -1>>
          /\ fd = File(file.content, file.hole, sb[2], sb[3])
          /\ fixed = ChunkerFixed_init(block_size, header_size, sparse, sb[1])
    /\ chunker = NoObject /\ smap = NoObject /\ failing = NoObject /\ hasher = NoObject
    /\ emitted = <<>>
    /\ ret = "none"

\* the consumer calls chunkify(fd)
Fixed_chunkify ==
    /\ fixed.pc = "new"
    /\ fixed' = fixed_chunkify(fixed)
    /\ UNCHANGED <<fd, chunker, smap, failing, emitted, ret, hasher>>

\* the consumer pulls the next chunk
Fixed_next ==
    /\ fixed.pc \in {"created", "yielded"}
    /\ LET w == fixed_resume(FixedWorld)
       IN fixed' = w.fx /\ fd' = w.fd /\ emitted' = w.out /\ ret' = w.ret
    /\ UNCHANGED <<chunker, smap, failing, hasher>>

\* the read of dread returns
Fixed_read ==
    /\ fixed.pc = "in_read"
    /\ \E k \in ReadSizes(fd, fixed.wanted) :
          LET w == fixed_read(FixedWorld, k)
          IN fixed' = w.fx /\ fd' = w.fd /\ emitted' = w.out /\ ret' = w.ret
    /\ UNCHANGED <<chunker, smap, failing, hasher>>

NextFixed == Fixed_chunkify \/ Fixed_next \/ Fixed_read

SpecFixed == InitFixed /\ [][NextFixed]_vars

\* Chunker and ChunkerFixed, the two chunkers that classify what they read
InitClassify == InitChunker \/ InitFixed

NextClassify == NextChunker \/ NextFixed

SpecClassify == InitClassify /\ [][NextClassify]_vars

(***************************************************************************)
(* ChunkerFailing                                                          *)
(***************************************************************************)
\* the characters the maps are made of: the four the constructor accepts
\* and one it rejects
MapChars == {"r", "R", "e", "E", "x"}

\* str.upper
upper(map) ==
    [i \in 1..Len(map) |-> IF map[i] = "r" THEN "R"
                           ELSE IF map[i] = "e" THEN "E"
                           ELSE map[i]]

\* ChunkerFailing.__init__; pc "ValueError": the constructor raised
ChunkerFailing_init(block_size, map) ==
    [block_size |-> block_size,
     map |-> upper(map),
     count |-> 0,
     wanted |-> 0, got |-> 0,
     given |-> map,          \* history: the map as the caller wrote it
     log |-> <<>>,           \* history: the non-empty reads and what came of them
     empty_read |-> FALSE,   \* history: a read has returned no bytes
     calls |-> <<>>,         \* history: how each next(generator) call ended
     resumed |-> 0,          \* history: chunkify calls after the first
     pc |-> IF \A i \in 1..Len(map) : upper(map)[i] \in {"R", "E"}
            THEN "new" ELSE "ValueError"]

\* Python's map[idx] for a string
map_at(map, idx) ==
    IF idx >= 0 /\ idx < Len(map) THEN map[idx + 1]
    ELSE IF idx < 0 /\ -idx <= Len(map) THEN map[Len(map) + idx + 1]
    ELSE "IndexError"

\* chunkify looking the behaviour up at count modulo the length of the map
failing_behaviour_wraps(x) ==
    map_at(x.map, IF x.map = <<>> THEN -1 ELSE x.count % Len(x.map))

\* chunkify: idx = self.count if self.count < len(self.map) else -1;
\* behaviour = self.map[idx]
failing_behaviour(x) ==
    map_at(x.map, IF x.count < Len(x.map) THEN x.count ELSE -1)

\* a chunkify that starts the map over
failing_chunkify_resets_count(x) ==
    [x EXCEPT !.wanted = x.block_size, !.got = 0, !.pc = "created", !.count = 0,
              !.resumed = IF x.pc = "new" THEN 0 ELSE x.resumed + 1]

\* chunkify(fd, fh): the generator object; wanted = self.block_size
failing_chunkify(x) ==
    [x EXCEPT !.wanted = x.block_size, !.got = 0, !.pc = "created",
              !.resumed = IF x.pc = "new" THEN 0 ELSE x.resumed + 1]

\* the next(generator) call has ended in a chunk of size, in an error or in
\* StopIteration
failing_called(x, outcome, size) ==
    [x EXCEPT !.calls = Append(x.calls, [outcome |-> outcome, size |-> size])]

\* chunkify: the non-empty read is logged with what came of it
failing_logged(x, data, outcome) ==
    [x EXCEPT !.log = Append(x.log, [data |-> data, outcome |-> outcome, count |-> x.count])]

\* chunkify: if got > 0: the three branches on behaviour
failing_behave(w, k, data, behaviour) ==
    IF behaviour = "E"
    THEN [w EXCEPT !.fl = failing_called(
                              failing_logged([w.fl EXCEPT !.count = w.fl.count + 1,
                                                          !.got = k, !.pc = "raised"],
                                             data, "EIO"),
                              "EIO", 0),
                   !.ret = "OSError EIO"]
    ELSE IF behaviour = "R"
    THEN [w EXCEPT !.fl = failing_called(
                              failing_logged([w.fl EXCEPT !.count = w.fl.count + 1,
                                                          !.got = k, !.pc = "yielded"],
                                             data, "chunk"),
                              "chunk", k),
                   !.out = Append(w.out, Chunk(data, k, CH_DATA)),
                   !.ret = "chunk"]
    ELSE IF behaviour = "IndexError"
    THEN [w EXCEPT !.fl = failing_called(
                              failing_logged([w.fl EXCEPT !.got = k, !.pc = "raised"],
                                             data, "IndexError"),
                              "IndexError", 0),
                   !.ret = "IndexError"]
    ELSE [w EXCEPT !.fl = failing_called(
                              failing_logged([w.fl EXCEPT !.got = k, !.pc = "raised"],
                                             data, "ValueError"),
                              "ValueError", 0),
                   !.ret = "ValueError"]

\* chunkify: the read returned k bytes
failing_read(w, k) ==
    IF k > 0
    THEN failing_behave([w EXCEPT !.fd = AfterRead(w.fd, w.fl.wanted, k)],
                        k, ReadBytes(w.fd, k), failing_behaviour(w.fl))
    ELSE IF k < w.fl.wanted
    THEN [w EXCEPT !.fl = failing_called([w.fl EXCEPT !.got = k, !.empty_read = TRUE,
                                                      !.pc = "finished"],
                                         "StopIteration", 0),
                   !.ret = "StopIteration"]
    ELSE [w EXCEPT !.fl = [w.fl EXCEPT !.got = k, !.empty_read = TRUE, !.pc = "in_read"]]

\* next(generator): from the start or from the last yield to the next read
\* or the end
\* a generator that has returned or raised answers next() with StopIteration
failing_resume(w) ==
    IF w.fl.pc \in {"raised", "finished"} \/ (w.fl.pc = "yielded" /\ w.fl.got < w.fl.wanted)
    THEN [w EXCEPT !.fl = failing_called([w.fl EXCEPT !.pc = "finished"], "StopIteration", 0),
                   !.ret = "StopIteration"]
    ELSE [w EXCEPT !.fl = [w.fl EXCEPT !.pc = "in_read"]]

FailingWorld == [fl |-> failing, fd |-> fd, out |-> emitted, ret |-> ret]

\* longest map and longest file given to ChunkerFailing
MaxMapLen == 2
MaxFailingLen == 3
\* most next(generator) calls the consumer makes on one ChunkerFailing
MaxCalls == 4

InitFailing ==
    /\ \E content \in SeqsOver(Alphabet, MaxFailingLen), block_size \in 1..MaxBlockSize,
          map \in SeqsOver(MapChars, MaxMapLen) :
          /\ fd = Stream(content)
          /\ failing = ChunkerFailing_init(block_size, map)
          /\ ret = IF failing.pc = "ValueError" THEN "ValueError" ELSE "none"
    /\ chunker = NoObject /\ smap = NoObject /\ fixed = NoObject /\ hasher = NoObject
    /\ emitted = <<>>

\* the consumer calls chunkify(fd), the first time or again after the
\* generator has ended
Failing_chunkify ==
    /\ failing.pc \in {"new", "raised", "finished"}
    /\ Len(failing.calls) < MaxCalls
    /\ failing' = failing_chunkify(failing)
    /\ UNCHANGED <<fd, chunker, smap, fixed, emitted, ret, hasher>>

\* the consumer calls chunkify(fd) again with a new source: the same bytes,
\* opened anew
Failing_chunkify_new ==
    /\ failing.pc \in {"raised", "finished"}
    /\ Len(failing.calls) < MaxCalls
    /\ failing' = failing_chunkify(failing)
    /\ fd' = [Stream(fd.content) EXCEPT !.short = fd.short]
    /\ UNCHANGED <<chunker, smap, fixed, emitted, ret, hasher>>

\* the consumer pulls the next chunk
Failing_next ==
    /\ failing.pc \in {"created", "yielded", "raised", "finished"}
    /\ Len(failing.calls) < MaxCalls
    /\ LET w == failing_resume(FailingWorld)
       IN failing' = w.fl /\ fd' = w.fd /\ emitted' = w.out /\ ret' = w.ret
    /\ UNCHANGED <<chunker, smap, fixed, hasher>>

\* fd.read(wanted) / os.read(fh, wanted) returns
Failing_read ==
    /\ failing.pc = "in_read"
    /\ \E k \in ReadSizes(fd, failing.wanted) :
          LET w == failing_read(FailingWorld, k)
          IN failing' = w.fl /\ fd' = w.fd /\ emitted' = w.out /\ ret' = w.ret
    /\ UNCHANGED <<chunker, smap, fixed, hasher>>

NextFailing == Failing_chunkify \/ Failing_next \/ Failing_read

SpecFailing == InitFailing /\ [][NextFailing]_vars

\* ChunkerFailing used again after its generator has ended, on the same
\* source or on a new one
NextFailingResume == NextFailing \/ Failing_chunkify_new

SpecFailingResume == InitFailing /\ [][NextFailingResume]_vars

\* the non-zero bytes of the sources of the scenario
NonZero == {1, 2}

\* ChunkerFailing(block_size=4, map="RERR") on an 8-byte non-zero source
InitFailingRERR ==
    /\ \E content \in [1..8 -> NonZero] :
          fd = Stream(content)
    /\ failing = ChunkerFailing_init(4, <<"R", "E", "R", "R">>)
    /\ chunker = NoObject /\ smap = NoObject /\ fixed = NoObject /\ hasher = NoObject
    /\ emitted = <<>>
    /\ ret = "none"

SpecFailingRERR == InitFailingRERR /\ [][NextFailingResume]_vars

(***************************************************************************)
(* The three chunkers                                                      *)
(***************************************************************************)
InitAny == InitChunker \/ InitFixed \/ InitFailing

NextAny == NextChunker \/ NextFixed \/ NextFailing

SpecAny == InitAny /\ [][NextAny]_vars

(***************************************************************************)
(* A caller of the exported hash functions: it hashes the first window of  *)
(* a byte string with buzhash and rolls the window on with buzhash_update. *)
(***************************************************************************)
\* the seeds the caller passes (-1 stands for 0xffffffff)
HashSeeds == {0, 1, -1, 305419896}

\* the window lengths: short ones, and those around the multiples of 32,
\* where the rotation amount len & 0x1f wraps to 0
HashWindows == {1, 2, 3, 31, 32, 33}

\* most bytes the window is rolled on by
MaxRoll == 2

\* longest byte string of which every content is taken
MaxHashLen == 4

\* the byte strings of length n: all over {0, 1, 255} when short, and
\* arithmetic progressions modulo 256 when long
HashData(n) ==
    IF n <= MaxHashLen
    THEN [1..n -> {0, 1, 255}]
    ELSE {[i \in 1..n |-> (a + i * d) % 256] : a \in {0, 7, 255}, d \in {0, 1, 85, 255}}

\* sum = buzhash(data[0:len], seed)
hash_first(seed, len, data) ==
    [seed |-> seed, len |-> len, data |-> data, p |-> 0,
     sum |-> buzhash(SubSeq(data, 1, len), seed),
     pc |-> "rolling"]

\* sum = buzhash_update(sum, data[p], data[p + len], len, seed)
hash_roll(x) ==
    [x EXCEPT !.sum = buzhash_update(x.sum, At(x.data, x.p), At(x.data, x.p + x.len),
                                     x.len, x.seed),
              !.p = x.p + 1]

InitHash ==
    /\ \E seed \in HashSeeds, len \in HashWindows, extra \in 1..MaxRoll :
          \E data \in HashData(len + extra) :
             hasher = hash_first(seed, len, data)
    /\ fd = Stream(<<>>)
    /\ chunker = NoObject /\ fixed = NoObject /\ smap = NoObject /\ failing = NoObject
    /\ emitted = <<>>
    /\ ret = "none"

\* the caller rolls the window on by one byte
Hash_update ==
    /\ hasher.pc = "rolling"
    /\ hasher.p + hasher.len < Len(hasher.data)
    /\ hasher' = hash_roll(hasher)
    /\ UNCHANGED <<fd, chunker, fixed, smap, failing, emitted, ret>>

NextHash == Hash_update

SpecHash == InitHash /\ [][NextHash]_vars

(***************************************************************************)
(* What the consumer rebuilds from the chunks                              *)
(***************************************************************************)
Zeros(n) == [i \in 1..n |-> 0]

\* the bytes a chunk stands for: its payload, or size zero bytes
ChunkBytes(ch) ==
    IF ch.meta.allocation = CH_DATA THEN ch.data ELSE Zeros(ch.meta.size)

RECURSIVE Reconstruct(_)
Reconstruct(chunks) ==
    IF chunks = <<>> THEN <<>>
    ELSE ChunkBytes(Head(chunks)) \o Reconstruct(Tail(chunks))

RECURSIVE TotalSize(_)
TotalSize(chunks) ==
    IF chunks = <<>> THEN 0 ELSE Head(chunks).meta.size + TotalSize(Tail(chunks))

\* the offsets at which the chunks end
Boundaries(chunks) == [i \in 1..Len(chunks) |-> TotalSize(SubSeq(chunks, 1, i))]

IsPrefix(s, t) == Len(s) <= Len(t) /\ SubSeq(t, 1, Len(s)) = s

\* the run of a Chunker in which every read returns all the bytes asked for
\* (or all that are left), to the end of the sequence
RECURSIVE FullReadRun(_)
FullReadRun(w) ==
    IF w.ck.pc = "idle"
    THEN IF w.ret \in {"StopIteration", "chunkifier byte count mismatch"}
         THEN w
         ELSE FullReadRun(Chunker__next__(w))
    ELSE IF w.ck.pc \in {"read_guard", "read_slide"}
         THEN FullReadRun(Chunker_fill_read(w,
                  Min(fill_want(w.ck), FileLen(w.fd) - w.fd.pos)))
         ELSE w

\* the chunks a freshly constructed Chunker with the same parameters cuts from
\* the same content when every read is a full read
FullReadChunks ==
    FullReadRun([ck |-> chunkify(Chunker_cinit(chunker.params)),
                 fd |-> Stream(fd.content), out |-> <<>>, ret |-> "none"]).out

ChunkerEnded == chunker.pc = "idle" /\ ret = "StopIteration"

(***************************************************************************)
(* C1: the chunks emitted so far, payloads of DATA chunks and size zero    *)
(* bytes for ALLOC chunks, concatenated in emission order, are a prefix of *)
(* the input stream, and are the whole stream when the end of the sequence *)
(* is signalled - whatever sizes the reads returned.                       *)
(***************************************************************************)
C1_Reconstruction ==
    chunker.pc # "none" =>
        /\ IsPrefix(Reconstruct(emitted), fd.content)
        /\ ChunkerEnded => Reconstruct(emitted) = fd.content

\* a finished run over a stream longer than the buffer, cut into at least
\* three chunks, with an ALLOC and a DATA chunk among them
C1_Witness ==
    /\ ChunkerEnded
    /\ FileLen(fd) > chunker.buf_size
    /\ Len(emitted) >= 3
    /\ \E i, j \in 1..Len(emitted) :
          emitted[i].meta.allocation = CH_ALLOC /\ emitted[j].meta.allocation = CH_DATA
    /\ Reconstruct(emitted) = fd.content

(***************************************************************************)
(* C2: the chunk boundaries do not depend on the sizes the reads return:   *)
(* in every run the boundaries emitted so far are a prefix of, and at the  *)
(* end equal to, the boundaries of the run over the same input with the    *)
(* same parameters in which every read is a full read.                     *)
(***************************************************************************)
C2_ReadSizeIndependence ==
    chunker.pc # "none" =>
        /\ IsPrefix(Boundaries(emitted), Boundaries(FullReadChunks))
        /\ ChunkerEnded => Boundaries(emitted) = Boundaries(FullReadChunks)

\* a finished run with at least two chunks in which the source returned
\* fewer bytes than asked for although more were left
C2_Witness ==
    /\ ChunkerEnded
    /\ Len(emitted) >= 2
    /\ fd.short
    /\ Boundaries(emitted) = Boundaries(FullReadChunks)

(***************************************************************************)
(* C3: every emitted chunk has 1 <= size <= max_size, and a chunk smaller  *)
(* than min_size is the final chunk of the stream.                         *)
(***************************************************************************)
C3_ChunkSizes ==
    chunker.pc # "none" =>
        \A i \in 1..Len(emitted) :
            /\ emitted[i].meta.size >= 1
            /\ emitted[i].meta.size <= chunker.buf_size
            /\ emitted[i].meta.size < chunker.min_size =>
                   /\ i = Len(emitted)
                   /\ chunker.done = 1
                   /\ TotalSize(emitted) = FileLen(fd)

\* a finished run with a chunk of max_size, a chunk cut by the hash before
\* max_size and a final chunk smaller than min_size
C3_Witness ==
    /\ ChunkerEnded
    /\ Len(emitted) >= 3
    /\ emitted[Len(emitted)].meta.size < chunker.min_size
    /\ \E i \in 1..Len(emitted) : emitted[i].meta.size = chunker.buf_size
    /\ \E i \in 1..(Len(emitted) - 1) : emitted[i].meta.size < chunker.buf_size

(***************************************************************************)
(* C13: when the consumer goes on pulling and every read returns at least  *)
(* one byte until the source is at its end, the end of the sequence is     *)
(* reached; no next() call is left looping: the refill guard never finds   *)
(* the buffer full, and every call that waits for a read goes on to        *)
(* return.                                                                 *)
(***************************************************************************)
C13_Terminates ==
    /\ [](chunker.pc # "spin")
    /\ [](chunker.pc \in {"read_guard", "read_slide"} => <>(chunker.pc = "idle"))
    /\ <>ChunkerEnded

\* the end of the sequence, reached after reads that returned less than was
\* asked for, with every byte of a stream longer than the buffer read
C13_Witness ==
    /\ ChunkerEnded
    /\ fd.short
    /\ chunker.eof = 1
    /\ chunker.bytes_read = FileLen(fd)
    /\ FileLen(fd) > chunker.buf_size

(***************************************************************************)
(* C14: no read failing, the 'chunkifier byte count mismatch' error is     *)
(* never raised and the end of the sequence is signalled with bytes_read = *)
(* bytes_yielded; between next() calls, before the chunker is done, the    *)
(* bytes read and not yet yielded are the buffered ones:                   *)
(* bytes_read - bytes_yielded = (position - last) + remaining.             *)
(***************************************************************************)
C14_ByteCounts ==
    chunker.pc # "none" =>
        /\ ret # "chunkifier byte count mismatch"
        /\ ChunkerEnded =>
              /\ chunker.bytes_read = chunker.bytes_yielded
              /\ chunker.bytes_read = FileLen(fd)
        /\ (chunker.pc = "idle" /\ chunker.done = 0) =>
              chunker.bytes_read - chunker.bytes_yielded
                  = (chunker.position - chunker.last) + chunker.remaining

\* between two next() calls, after a chunk that absorbed nothing: bytes are
\* buffered that no chunk has yielded
C14_Witness ==
    /\ chunker.pc = "idle"
    /\ chunker.done = 0
    /\ ret = "chunk"
    /\ Len(emitted) >= 2
    /\ chunker.remaining > 0
    /\ chunker.bytes_yielded > 0
    /\ chunker.bytes_read - chunker.bytes_yielded = chunker.remaining


\* offset in the stream at which the i-th emitted chunk starts
ChunkStart(i) == IF i = 1 THEN 0 ELSE Boundaries(emitted)[i - 1]

\* the i-th emitted chunk is not the last chunk of the stream
NotLastChunk(i) == ChunkStart(i) + emitted[i].meta.size < FileLen(fd)

\* the window of window_size bytes at chunk-relative offset p of the chunk
\* starting at start lies inside the stream
WindowInStream(start, p) == start + p + chunker.window_size <= FileLen(fd)

\* buzhash(window) & chunk_mask for that window, hashed from the bytes of the
\* stream
WindowMasked(start, p) ==
    AND(buzhash(SubSeq(fd.content, start + p + 1, start + p + chunker.window_size),
                chunker.params.seed),
        chunker.chunk_mask)

(***************************************************************************)
(* C17: every emitted chunk that is not the last chunk of the stream and   *)
(* whose size s is less than max_size ends at the first candidate offset:  *)
(* the window of window_size bytes starting at chunk-relative offset s has *)
(* buzhash & chunk_mask = 0, and every window starting at a chunk-relative *)
(* offset p with min_size <= p < s has non-zero masked hash bits.          *)
(***************************************************************************)
C17_CutRule ==
    chunker.pc # "none" =>
        \A i \in 1..Len(emitted) :
            LET start == ChunkStart(i)
                s == emitted[i].meta.size
            IN (NotLastChunk(i) /\ s < chunker.buf_size) =>
                  /\ s >= chunker.min_size
                  /\ WindowInStream(start, s)
                  /\ WindowMasked(start, s) = {}
                  /\ \A p \in chunker.min_size..(s - 1) : WindowMasked(start, p) # {}

\* a chunk after the first, cut by the hash before max_size and after
\* windows that did not match, in a run with short reads
C17_Witness ==
    /\ chunker.pc = "idle"
    /\ fd.short
    /\ \E i \in 2..Len(emitted) :
          /\ NotLastChunk(i)
          /\ emitted[i].meta.size < chunker.buf_size
          /\ emitted[i].meta.size > chunker.min_size
          /\ WindowMasked(ChunkStart(i), emitted[i].meta.size) = {}

(***************************************************************************)
(* C18: in every reachable state, and after every fill, every slide step   *)
(* and every emission on the way to it, last <= position <= position +     *)
(* remaining <= buf_size, where buf_size = max_size; every window          *)
(* data[p .. p+W] read during sliding lies inside the buffered bytes.      *)
(***************************************************************************)
C18_BufferInvariant ==
    chunker.pc # "none" =>
        /\ chunker.buf_size = 2 ^ chunker.params.chunk_max_exp
        /\ chunker.last <= chunker.position
        /\ chunker.position <= chunker.position + chunker.remaining
        /\ chunker.position + chunker.remaining <= chunker.buf_size
        /\ chunker.in_bounds

\* between two next() calls, after fills with short reads, slides and a
\* second emission: the buffer is full, a chunk ends inside it and bytes
\* are left behind the cut
C18_Witness ==
    /\ chunker.pc = "idle"
    /\ ret = "chunk"
    /\ fd.short
    /\ Len(emitted) >= 2
    /\ chunker.last > 0
    /\ chunker.last = chunker.position
    /\ chunker.remaining > chunker.window_size
    /\ chunker.position + chunker.remaining = chunker.buf_size
    /\ chunker.in_bounds

\* at least max_size bytes of the stream lie behind start, and no window at
\* a chunk-relative offset p with min_size <= p < max_size - W of the chunk
\* starting there has zero masked hash bits
NoCandidate(start) ==
    /\ start + chunker.buf_size <= FileLen(fd)
    /\ \A p \in chunker.min_size..(chunker.buf_size - chunker.window_size - 1) :
          WindowMasked(start, p) # {}

(***************************************************************************)
(* C19: when at least max_size bytes of input remain from the start of a   *)
(* chunk and no window at a chunk-relative offset p with min_size <= p <   *)
(* max_size - W has zero masked hash bits, the chunk has size exactly      *)
(* max_size, and the search stops without a further read: a read is waited *)
(* for only while fewer than max_size bytes of the chunk were read, and    *)
(* when the chunk is emitted no byte behind it was read.                   *)
(***************************************************************************)
C19_MaxChunk ==
    chunker.pc # "none" =>
        /\ \A i \in 1..Len(emitted) :
              NoCandidate(ChunkStart(i)) => emitted[i].meta.size = chunker.buf_size
        /\ (chunker.pc \in {"read_guard", "read_slide"} /\ NoCandidate(TotalSize(emitted))) =>
              chunker.bytes_read < TotalSize(emitted) + chunker.buf_size
        /\ (chunker.pc = "idle" /\ ret = "chunk" /\ NoCandidate(ChunkStart(Len(emitted)))) =>
              /\ chunker.bytes_read = TotalSize(emitted)
              /\ chunker.remaining = 0

\* a chunk after the first, of max_size bytes that are not all zero, has
\* just been emitted after short reads, no window before max_size - W
\* having matched, and bytes of the stream are left behind it
C19_Witness ==
    /\ chunker.pc = "idle"
    /\ ret = "chunk"
    /\ fd.short
    /\ Len(emitted) >= 2
    /\ NoCandidate(ChunkStart(Len(emitted)))
    /\ emitted[Len(emitted)].meta.size = chunker.buf_size
    /\ emitted[Len(emitted)].meta.allocation = CH_DATA
    /\ chunker.bytes_read = TotalSize(emitted)
    /\ TotalSize(emitted) < FileLen(fd)

\* the window at chunk-relative offset max_size - W of the chunk starting at
\* start is the first one with zero masked hash bits
MatchAtLastWindow(start) ==
    /\ NoCandidate(start)
    /\ WindowMasked(start, chunker.buf_size - chunker.window_size) = {}

(***************************************************************************)
(* C20: no chunk other than the last chunk of the stream has a size s with *)
(* max_size - W <= s < max_size; when the first window with zero masked    *)
(* hash bits is the one at chunk-relative offset max_size - W (W bytes     *)
(* remain buffered and the buffer is full), the chunk is not cut there:    *)
(* the tail is absorbed and the chunk has size max_size.                   *)
(***************************************************************************)
C20_NoCutInLastWindow ==
    chunker.pc # "none" =>
        \A i \in 1..Len(emitted) :
            /\ NotLastChunk(i) =>
                  \/ emitted[i].meta.size < chunker.buf_size - chunker.window_size
                  \/ emitted[i].meta.size = chunker.buf_size
            /\ MatchAtLastWindow(ChunkStart(i)) =>
                  /\ emitted[i].meta.size = chunker.buf_size
                  /\ i = Len(emitted) /\ chunker.pc = "idle" /\ ret = "chunk" =>
                        chunker.remaining = 0

\* a chunk of max_size that is not the last of the stream, whose window at
\* offset max_size - W is the first that matches the mask, emitted after
\* short reads
C20_Witness ==
    /\ chunker.pc = "idle"
    /\ fd.short
    /\ \E i \in 1..Len(emitted) :
          /\ NotLastChunk(i)
          /\ MatchAtLastWindow(ChunkStart(i))
          /\ emitted[i].meta.size = chunker.buf_size
          /\ emitted[i].meta.allocation = CH_DATA

(***************************************************************************)
(* C21: every next() call terminates, also when it follows a next() call   *)
(* that raised a read error from fill(): the refill-guard loop never finds *)
(* the buffer full with fewer than min_size + W + 1 bytes remaining and    *)
(* eof not set (fill would return without reading, and the loop would go   *)
(* round for ever).                                                        *)
(***************************************************************************)
C21_NextTerminates == chunker.pc # "spin"

\* the loop that never ends is entered only in a run in which a read failed,
\* with the buffer full and position left behind last by the failed search
C21_SpinOnlyAfterError ==
    chunker.pc = "spin" =>
        /\ fd.failed
        /\ chunker.eof = 0
        /\ chunker.last = 0
        /\ chunker.position > 0
        /\ chunker.position + chunker.remaining = chunker.buf_size
        /\ chunker.remaining < chunker.min_size + chunker.window_size + 1

(***************************************************************************)
(* C22: chunkify() resets all stream state (done, eof, remaining,          *)
(* position, last, bytes_read, bytes_yielded), and in a run without a read *)
(* error the chunks a Chunker emits for a source are those a freshly       *)
(* constructed Chunker with the same parameters emits for it, whatever the *)
(* runs before on that Chunker did: finished, abandoned before the end, or *)
(* ended by an error.                                                      *)
(***************************************************************************)
C22_ChunkifyResets ==
    chunker.pc \notin {"none", "new"} =>
        /\ (chunker.pc = "idle" /\ ret = "none") =>
              /\ chunker.done = 0 /\ chunker.eof = 0
              /\ chunker.remaining = 0 /\ chunker.position = 0 /\ chunker.last = 0
              /\ chunker.bytes_read = 0 /\ chunker.bytes_yielded = 0
        /\ ~fd.failed =>
              /\ chunker.pc # "spin"
              /\ IsPrefix(emitted, FullReadChunks)
              /\ ChunkerEnded => emitted = FullReadChunks

\* a run of at least two chunks, with short reads, seen to its end on a
\* Chunker whose run before was ended by a read error
C22_Witness ==
    /\ ChunkerEnded
    /\ chunker.earlier = "error"
    /\ ~fd.failed
    /\ fd.short
    /\ Len(emitted) >= 2
    /\ emitted = FullReadChunks

\* the same after a run that was abandoned before the end of its source
C22_WitnessAbandoned ==
    /\ ChunkerEnded
    /\ chunker.earlier = "abandoned"
    /\ ~fd.failed
    /\ Len(emitted) >= 2
    /\ emitted = FullReadChunks

\* the state right after chunkify() on a Chunker whose run before ended
\* with eof set and bytes buffered behind a cut
C22_WitnessReset ==
    /\ chunker.pc = "idle"
    /\ ret = "none"
    /\ chunker.earlier = "finished"
    /\ chunker.eof = 0
    /\ \E i \in 1..chunker.buf_size : chunker.data[i] # Junk
(***************************************************************************)
(* ChunkerFailing                                                          *)
(***************************************************************************)
\* the log entries of the reads that ended in a chunk
Yielded(log) == SelectSeq(log, LAMBDA e : e.outcome = "chunk")

RECURSIVE LoggedBytes(_)
LoggedBytes(log) ==
    IF log = <<>> THEN <<>> ELSE Head(log).data \o LoggedBytes(Tail(log))

(***************************************************************************)
(* C10: with a non-empty map, the k-th non-empty read (k from 0, over all  *)
(* the chunkify calls on the chunker) ends as the character of the map as  *)
(* given at min(k, len(map) - 1) says: r/R in a DATA chunk carrying the    *)
(* bytes read, e/E in an OSError with EIO; count is k + 1 after it in both *)
(* cases, so that count is the number of non-empty reads and an empty read *)
(* leaves it alone.  The chunks emitted are those of the R reads in order, *)
(* and the reads deliver the file in order.                                *)
(***************************************************************************)
C10_FailingMap ==
    (failing.pc \notin {"none", "ValueError"} /\ failing.given # <<>>) =>
        /\ \A i \in 1..Len(failing.log) :
              LET c == failing.given[Min(i - 1, Len(failing.given) - 1) + 1]
                  e == failing.log[i]
              IN /\ c \in {"r", "R"} => e.outcome = "chunk"
                 /\ c \in {"e", "E"} => e.outcome = "EIO"
                 /\ e.outcome \in {"chunk", "EIO"}
                 /\ e.count = i
                 /\ e.data # <<>>
        /\ failing.count = Len(failing.log)
        /\ Len(emitted) = Len(Yielded(failing.log))
        /\ \A j \in 1..Len(emitted) :
              emitted[j] = Chunk(Yielded(failing.log)[j].data,
                                 Len(Yielded(failing.log)[j].data), CH_DATA)
        /\ LoggedBytes(failing.log) = SubSeq(fd.content, 1, fd.pos)
        /\ failing.pc = "raised" <=>
              (ret = "OSError EIO" /\ failing.log # <<>>
               /\ failing.log[Len(failing.log)].outcome = "EIO"
               /\ failing.pc \notin {"created", "in_read"})

\* a run with the map "er" that raised on read 0, was resumed by a second
\* chunkify, emitted chunks for read 1 and for read 2, which is beyond the
\* map, and ended on an empty read
C10_Witness ==
    /\ failing.pc = "finished"
    /\ failing.given = <<"e", "r">>
    /\ failing.empty_read
    /\ Len(failing.log) >= 3
    /\ failing.log[1].outcome = "EIO"
    /\ failing.log[2].outcome = "chunk"
    /\ failing.log[3].outcome = "chunk"
    /\ failing.count = Len(failing.log)
    /\ Len(emitted) = Len(failing.log) - 1

(***************************************************************************)
(* C11: ChunkerFailing(block_size=4, map="RERR") on an 8-byte non-zero     *)
(* source whose reads return all that is asked for: the first next() call  *)
(* ends in a DATA chunk of size 4, the second in EIO, the third in a DATA  *)
(* chunk of size 4 and the fourth in the end of the sequence.              *)
(***************************************************************************)
RERRCalls ==
    << [outcome |-> "chunk", size |-> 4], [outcome |-> "EIO", size |-> 0],
       [outcome |-> "chunk", size |-> 4], [outcome |-> "StopIteration", size |-> 0] >>

C11_RERRScenario ==
    (failing.pc # "none" /\ ~fd.short /\ Len(failing.calls) >= 4) =>
        SubSeq(failing.calls, 1, 4) = RERRCalls

\* whatever the consumer does after the error (next() on the generator that
\* raised, chunkify on the same source, chunkify on the bytes opened anew),
\* the first four calls never end as C11 says
C11_NeverAsStated ==
    (failing.pc # "none" /\ Len(failing.calls) >= 4) =>
        SubSeq(failing.calls, 1, 4) # RERRCalls

\* the first two calls do end as C11 says
C11_FirstTwoCalls ==
    (failing.pc # "none" /\ ~fd.short /\ Len(failing.calls) >= 2) =>
        SubSeq(failing.calls, 1, 2) = SubSeq(RERRCalls, 1, 2)

(***************************************************************************)
(* C12: no step lowers count; a chunkify() call, the first or a later one, *)
(* on the same source or on a new one, leaves count alone and does not     *)
(* move the source it is given (the same source stays where it was, a new  *)
(* one is at its start); every non-empty read, a simulated error included, *)
(* takes its bytes from the current position of the source, ends as the    *)
(* map says at min(count, len(map) - 1) for the count the previous reads   *)
(* of all generators left, and adds one to count.                          *)
(***************************************************************************)
C12_CounterPersists ==
    [][(failing.pc \notin {"none", "ValueError"} /\ failing.given # <<>>) =>
         /\ failing'.count >= failing.count
         /\ failing'.map = failing.map
         /\ failing'.pc = "created" =>
               /\ failing'.count = failing.count
               /\ fd' = fd \/ (fd'.pos = 0 /\ fd'.content = fd.content)
         /\ Len(failing'.log) > Len(failing.log) =>
               LET e == failing'.log[Len(failing'.log)]
                   c == failing.given[Min(failing.count, Len(failing.given) - 1) + 1]
               IN /\ Len(failing'.log) = Len(failing.log) + 1
                  /\ e.data = SubSeq(fd.content, fd.pos + 1, fd.pos + Len(e.data))
                  /\ fd'.pos = fd.pos + Len(e.data)
                  /\ e.outcome = IF c \in {"r", "R"} THEN "chunk" ELSE "EIO"
                  /\ failing'.count = failing.count + 1
         /\ Len(failing'.log) = Len(failing.log) => failing'.count = failing.count
      ]_vars

\* a ChunkerFailing whose first read raised the simulated error and that,
\* given a new source by a later chunkify, yielded a chunk for read 1 and
\* one for read 2
C12_Witness ==
    /\ failing.pc = "yielded"
    /\ failing.resumed >= 1
    /\ Len(failing.log) = 3
    /\ failing.log[1].outcome = "EIO"
    /\ failing.log[2].outcome = "chunk"
    /\ failing.log[3].outcome = "chunk"
    /\ failing.count = 3
    /\ Len(LoggedBytes(failing.log)) > fd.pos

(***************************************************************************)
(* ChunkerFixed: what the chunks cover                                     *)
(***************************************************************************)
\* the file offsets chunk i stands for, the chunks being laid out from 0
Extent(chunks, i) ==
    TotalSize(SubSeq(chunks, 1, i - 1)) .. (TotalSize(SubSeq(chunks, 1, i)) - 1)

\* chunkify has built the map from the holes the source reported
SparseBuilt ==
    /\ fixed.pc \notin {"none", "new", "created"}
    /\ fixed.try_sparse
    /\ ~fixed.fellback

AllZero(b) == \A i \in 1..Len(b) : b[i] = 0

(***************************************************************************)
(* C4: when chunkify has ended on a map it built as intended (the fake map *)
(* without sparse, the sparse map with it), the sizes of the emitted       *)
(* chunks sum to the length of the file and the chunks, ALLOC and HOLE as  *)
(* zero bytes, are the file - whatever sizes the reads returned.           *)
(***************************************************************************)
C4_FixedCoversFile ==
    (fixed.pc = "finished" /\ ~fixed.fellback) =>
        /\ TotalSize(emitted) = FileLen(fd)
        /\ Reconstruct(emitted) = fd.content

(***************************************************************************)
(* C5: when building the sparse map failed with a seek error, no OSError   *)
(* leaves chunkify, the first read of a file that is not empty is at file  *)
(* offset 0, and, the reads returning all that is asked for, the chunks of *)
(* the ended run are the file.                                             *)
(***************************************************************************)
C5_SparseFallback ==
    (fixed.pc # "none" /\ fixed.fellback) =>
        /\ ret # "OSError"
        /\ (fixed.pc = "in_read" /\ emitted = <<>> /\ FileLen(fd) > 0) => fd.pos = 0
        /\ (fixed.pc = "finished" /\ ~fd.short) => Reconstruct(emitted) = fd.content

(***************************************************************************)
(* C6 as stated: with the sparse map built, every emitted chunk that       *)
(* overlaps a hole has kind HOLE and every HOLE chunk lies in a hole.      *)
(***************************************************************************)
C6_HoleChunksAnyHeader ==
    SparseBuilt =>
        /\ TotalSize(emitted) <= FileLen(fd)
        /\ \A i \in 1..Len(emitted) :
              /\ (\E o \in Extent(emitted, i) : fd.hole[o + 1]) =>
                     emitted[i].meta.allocation = CH_HOLE
              /\ emitted[i].meta.allocation = CH_HOLE =>
                     \A o \in Extent(emitted, i) : fd.hole[o + 1]

(***************************************************************************)
(* C6: with the sparse map built, every byte an emitted chunk stands for   *)
(* is in a hole at or after header_size if the chunk has kind HOLE and is  *)
(* not if the chunk has another kind: the HOLE chunks cover exactly the    *)
(* part of each hole that lies at or after header_size, as far as chunks   *)
(* have been emitted, and no chunk straddles the edge of such a part.      *)
(***************************************************************************)
C6_HoleChunks ==
    SparseBuilt =>
        /\ TotalSize(emitted) <= FileLen(fd)
        /\ \A i \in 1..Len(emitted) :
              \A o \in Extent(emitted, i) :
                  (emitted[i].meta.allocation = CH_HOLE)
                      <=> (fd.hole[o + 1] /\ o >= fixed.header_size)

\* an ended run over a file whose first hole starts below header_size and
\* ends after it, with HOLE chunks and a DATA chunk after the header, the
\* chunks covering the file
C6_Witness ==
    /\ SparseBuilt
    /\ fixed.pc = "finished"
    /\ fixed.header_size > 0
    /\ FileLen(fd) > 0
    /\ fd.hole[1]
    /\ \E i, j \in 1..Len(emitted) :
          /\ emitted[i].meta.allocation = CH_HOLE
          /\ emitted[j].meta.allocation = CH_DATA
          /\ i < j
    /\ TotalSize(emitted) = FileLen(fd)

(***************************************************************************)
(* C7: every chunk of Chunker, and every chunk ChunkerFixed emits for a    *)
(* block it read from a data range, has kind ALLOC if and only if all the  *)
(* bytes it stands for are zero and kind DATA otherwise; it carries a      *)
(* payload if and only if its kind is DATA, and the payload is these       *)
(* bytes, size of them.                                                    *)
(***************************************************************************)
Classified(ch, bytes) ==
    /\ ch.meta.allocation \in {CH_ALLOC, CH_DATA}
    /\ (ch.meta.allocation = CH_ALLOC) <=> AllZero(bytes)
    /\ (ch.data # NoneBytes) <=> (ch.meta.allocation = CH_DATA)
    /\ ch.meta.allocation = CH_DATA => (ch.data = bytes /\ Len(ch.data) = ch.meta.size)
    /\ ch.meta.size = Len(bytes)

C7_Classification ==
    /\ chunker.pc # "none" =>
          \A i \in 1..Len(emitted) :
              /\ TotalSize(SubSeq(emitted, 1, i)) <= FileLen(fd)
              /\ Classified(emitted[i], [k \in 1..emitted[i].meta.size |->
                                fd.content[TotalSize(SubSeq(emitted, 1, i - 1)) + k]])
    /\ fixed.pc # "none" =>
          /\ Len(fixed.raw) = Len(emitted)
          /\ \A i \in 1..Len(emitted) :
                IF emitted[i].meta.allocation = CH_HOLE
                THEN emitted[i].data = NoneBytes /\ fixed.raw[i] = NoneBytes
                ELSE Classified(emitted[i], fixed.raw[i])

\* an ended run of ChunkerFixed with an ALLOC chunk for a block of zeros it
\* read and a DATA chunk whose payload starts with a zero byte
C7_Witness ==
    /\ fixed.pc = "finished"
    /\ \E i, j \in 1..Len(emitted) :
          /\ emitted[i].meta.allocation = CH_ALLOC
          /\ fixed.raw[i] # NoneBytes
          /\ emitted[j].meta.allocation = CH_DATA
          /\ Len(emitted[j].data) = 2
          /\ emitted[j].data[1] = 0

\* an ended run of Chunker with an ALLOC chunk and a DATA chunk whose
\* payload starts with a zero byte
C7_WitnessChunker ==
    /\ ChunkerEnded
    /\ \E i, j \in 1..Len(emitted) :
          /\ emitted[i].meta.allocation = CH_ALLOC
          /\ emitted[j].meta.allocation = CH_DATA
          /\ emitted[j].data[1] = 0

(***************************************************************************)
(* C15: on a source of 0 bytes Chunker, ChunkerFixed (sparse or not, any   *)
(* header_size, whatever the seeks do) and ChunkerFailing (any map the     *)
(* constructor takes) emit no chunk and raise no error: every call ends in *)
(* the end of the sequence; Chunker ends with bytes_read = bytes_yielded = *)
(* 0.                                                                      *)
(***************************************************************************)
C15_EmptySource ==
    (FileLen(fd) = 0 /\ failing.pc # "ValueError") =>
        /\ emitted = <<>>
        /\ ret \in {"none", "StopIteration"}
        /\ fixed.pc # "raised"
        /\ failing.pc # "raised"
        /\ chunker.pc \notin {"none", "new"} =>
              /\ chunker.bytes_read = 0
              /\ chunker.bytes_yielded = 0
              /\ chunker.remaining = 0
        /\ failing.pc # "none" =>
              \A i \in 1..Len(failing.calls) : failing.calls[i].outcome = "StopIteration"

\* ChunkerFixed with a header, having fallen back from the sparse map, at
\* the end of the sequence on a 0-byte source
C15_Witness ==
    /\ FileLen(fd) = 0
    /\ fixed.pc = "finished"
    /\ fixed.header_size > 0
    /\ fixed.fellback
    /\ ret = "StopIteration"
    /\ emitted = <<>>

\* Chunker at the end of the sequence on a 0-byte source
C15_WitnessChunker ==
    /\ FileLen(fd) = 0
    /\ ChunkerEnded
    /\ chunker.eof = 1
    /\ emitted = <<>>

\* ChunkerFailing with a map that starts with E at the end of the sequence
\* on a 0-byte source
C15_WitnessFailing ==
    /\ FileLen(fd) = 0
    /\ failing.pc = "finished"
    /\ failing.empty_read
    /\ failing.map # <<>>
    /\ failing.map[1] = "E"
    /\ emitted = <<>>

(***************************************************************************)
(* C16: rolling-hash identity.  For every seed, window length W >= 1 (the  *)
(* multiples of 32 included) and byte string b of W + 1 bytes,             *)
(* buzhash_update(buzhash(b[0..W], seed), b[0], b[W], W, seed) =           *)
(* buzhash(b[1..W+1], seed); so the sum a caller rolls on from the first   *)
(* window is at every step the buzhash of the window it has reached.       *)
(***************************************************************************)
C16_RollingIdentity ==
    hasher.pc = "rolling" =>
        hasher.sum = buzhash(SubSeq(hasher.data, hasher.p + 1, hasher.p + hasher.len),
                             hasher.seed)

\* a window of 32 bytes (rotation amount 0) rolled on twice with the seed
\* 0xffffffff, over bytes that are not all the same
C16_Witness ==
    /\ hasher.pc = "rolling"
    /\ hasher.len = 32
    /\ hasher.seed = -1
    /\ hasher.p = 2
    /\ hasher.data[1] # hasher.data[2]
    /\ hasher.sum # {}

(***************************************************************************)
(* C8: the ranges sparsemap yields are non-empty, start at the seek        *)
(* position curr the source had, follow each other without gap or overlap  *)
(* and alternate is_data; every byte of a range is data or hole as is_data *)
(* says; and when the generator is exhausted they end at the file length   *)
(* L (they cover [curr, L)), a hole reaching the end of the file being the *)
(* last range.                                                             *)
(***************************************************************************)
RangeEnd(r) == r[1] + r[2]

C8_SparsemapRanges ==
    smap.pc # "none" =>
        /\ \A i \in 1..Len(emitted) :
              /\ emitted[i][2] > 0
              /\ emitted[i][1] = (IF i = 1 THEN smap.pos0 ELSE RangeEnd(emitted[i - 1]))
              /\ i > 1 => emitted[i][3] # emitted[i - 1][3]
              /\ \A o \in emitted[i][1]..(RangeEnd(emitted[i]) - 1) :
                    o < FileLen(fd) /\ fd.hole[o + 1] = ~emitted[i][3]
        /\ smap.pc = "finished" =>
              IF smap.pos0 < FileLen(fd)
              THEN emitted # <<>> /\ RangeEnd(emitted[Len(emitted)]) = FileLen(fd)
              ELSE emitted = <<>>

\* an exhausted generator that started inside the file, yielded at least three
\* ranges and ended with a hole reaching the end of the file
C8_Witness ==
    /\ smap.pc = "finished"
    /\ smap.pos0 > 0
    /\ Len(emitted) >= 3
    /\ emitted[Len(emitted)][3] = FALSE
    /\ RangeEnd(emitted[Len(emitted)]) = FileLen(fd)

(***************************************************************************)
(* C9: when the sparsemap generator has terminated - exhausted, closed by  *)
(* the consumer, or by raising the OSError of a failed seek - the source's *)
(* seek position is the one it had when sparsemap was called.              *)
(***************************************************************************)
C9_SparsemapRestoresPosition ==
    smap.pc \in {"finished", "closed", "raised"} => fd.pos = smap.pos0

\* a generator that raised the error of a failed SEEK_DATA / SEEK_HOLE after it
\* had yielded a range and moved the position
C9_Witness ==
    /\ smap.pc = "raised"
    /\ ret = "OSError"
    /\ fd.seekable
    /\ Len(emitted) >= 1
    /\ smap.pos0 # RangeEnd(emitted[Len(emitted)])
    /\ fd.pos = smap.pos0

\* a generator the consumer closed after the first range, the position restored
C9_WitnessClosed ==
    /\ smap.pc = "closed"
    /\ Len(emitted) >= 1
    /\ fd.pos = smap.pos0

====
